---- MODULE Spec2Model ----
(***************************************************************************)
(* Rate-limiting layer of the metadata playground (src/lib/models.ts,      *)
(* lines 78-104): the lazily constructed, process-wide Ratelimit client,   *)
(* checkRateLimit, and the external fixed-window counter store it          *)
(* delegates to.                                                           *)
(*                                                                         *)
(* A checkRateLimit call runs getRatelimit and the null test synchronously *)
(* (JavaScript runs a function to its first await without interleaving),   *)
(* then suspends on rl.limit(identifier) until the store answers or fails. *)
(* Several calls may be suspended at once.                                 *)
(***************************************************************************)
EXTENDS Integers, Sequences, FiniteSets, Bags, TLC

\* ------------------------------------------------------------------ bounds
MaxConc    == 2     \* checkRateLimit calls that may be suspended at once
DayTicks   == 2     \* clock ticks per calendar day
MaxTime    == 2     \* last clock tick explored
MaxCount   == 7     \* calls explored per key and window
MaxHandles == 2     \* client constructions explored

Identifiers == {"ipA", "ipB"}

\* ------------------------------------------------- environment (inputs)
\* A configuration value is the sequence of its characters; the empty
\* sequence stands for an unset (or empty) variable, which `!url` rejects.
Unset     == <<>>
HttpUrl   == <<"h", "t", "t", "p", ":", "/", "/", "r">>
HttpsUrl  == <<"h", "t", "t", "p", "s", ":", "/", "/", "r">>
EnvUrls   == {Unset, HttpUrl, HttpsUrl}
EnvTokens == {Unset, <<"k">>}

Null == 0           \* the null client handle

VARIABLES
    envUrl,         \* process.env.UPSTASH_REDIS_REST_URL
    envToken,       \* process.env.UPSTASH_REDIS_REST_TOKEN
    _ratelimit,     \* the cached client handle, Null or a handle id
    inflight,       \* the bag of checkRateLimit calls suspended at rl.limit
    store,          \* external store: per key, the window and its count
    now,            \* clock tick
    constructed,    \* history: number of `new Ratelimit` executed
    foundInvalid,   \* history: some call found the configuration invalid
    obs,            \* history: per identifier, what its callers observed
    lastRet         \* history: the completion the latest step made, if any

VARIABLES
    catalog,        \* MODELS
    calc            \* the cost computation at hand: its inputs, then its results

costVars == <<catalog, calc>>

VARIABLES
    posts,          \* the bag of POST /api/extract requests in progress
    lastPost        \* history: the outcome the latest step gave a POST, if any

postVars == <<posts, lastPost>>

VARIABLES
    file,           \* page state: the file loaded, or NoFile
    selectedModels, \* page state: the identifiers selected
    extractions,    \* page state: per identifier, the extraction state
    fetches,        \* the bag of fetch("/api/extract") calls not yet settled
    sample          \* the mount effect that loads the sample image

uiVars == <<file, selectedModels, extractions, fetches, sample>>

\* State of the components the rate limiter does not touch.
appVars == <<costVars, postVars, uiVars>>

vars == <<envUrl, envToken, _ratelimit, inflight, store, now, constructed,
          foundInvalid, obs, lastRet, appVars>>

\* ------------------------------------------------------- getRatelimit
Truthy(s) == Len(s) > 0

StartsWith(s, p) == Len(s) >= Len(p) /\ SubSeq(s, 1, Len(p)) = p

\* Variants of the limiter policy: a quota of four, a quota of six, a
\* window of two days.
limiter_fourTokens == [tokens |-> 4, windowDays |-> 1]

limiter_sixTokens == [tokens |-> 6, windowDays |-> 1]

limiter_twoDays == [tokens |-> 5, windowDays |-> 2]

\* Ratelimit.fixedWindow(5, "1 d")
limiter == [tokens |-> 5, windowDays |-> 1]

\* Variant: the secure-transport test on the URL is missing.
getRatelimit_noSchemeTest(cached, url, token, fresh) ==
    IF cached # Null
    THEN [rl |-> cached, cache |-> cached, built |-> FALSE]
    ELSE IF ~Truthy(url) \/ ~Truthy(token)
    THEN [rl |-> Null, cache |-> cached, built |-> FALSE]
    ELSE [rl |-> fresh, cache |-> fresh, built |-> TRUE]

\* Variant: the configuration is tested before the cache, and an invalid
\* configuration drops the cached client.
getRatelimit_configFirst(cached, url, token, fresh) ==
    IF ~Truthy(url) \/ ~Truthy(token) \/ ~StartsWith(url, <<"h", "t", "t", "p", "s">>)
    THEN [rl |-> Null, cache |-> Null, built |-> FALSE]
    ELSE IF cached # Null
    THEN [rl |-> cached, cache |-> cached, built |-> FALSE]
    ELSE [rl |-> fresh, cache |-> fresh, built |-> TRUE]

\* Variant: the cached client is never looked at.
getRatelimit_noCache(cached, url, token, fresh) ==
    IF ~Truthy(url) \/ ~Truthy(token) \/ ~StartsWith(url, <<"h", "t", "t", "p", "s">>)
    THEN [rl |-> Null, cache |-> cached, built |-> FALSE]
    ELSE [rl |-> fresh, cache |-> fresh, built |-> TRUE]

\* getRatelimit(): cached is _ratelimit before the call, fresh the id a new
\* client would get.  rl is the value returned, cache is _ratelimit after
\* the call, built tells whether `new Ratelimit` ran.
getRatelimit(cached, url, token, fresh) ==
    IF cached # Null
    THEN [rl |-> cached, cache |-> cached, built |-> FALSE]
    ELSE IF ~Truthy(url) \/ ~Truthy(token) \/ ~StartsWith(url, <<"h", "t", "t", "p", "s">>)
    THEN [rl |-> Null, cache |-> cached, built |-> FALSE]
    ELSE [rl |-> fresh, cache |-> fresh, built |-> TRUE]

\* ----------------------------------------------------- checkRateLimit
Ok(d) == [kind |-> "ok", success |-> d.success, limit |-> d.limit,
          remaining |-> d.remaining, reset |-> d.reset]

Failure == [kind |-> "error"]

Permissive == [success |-> TRUE, limit |-> 0, remaining |-> 0, reset |-> 0]

\* Variant: rl.limit is called with one fixed key instead of the identifier.
checkRateLimit_sharedKey(rl, identifier) ==
    IF rl = Null
    THEN [await |-> FALSE, ret |-> Ok(Permissive), key |-> identifier]
    ELSE [await |-> TRUE, ret |-> Failure, key |-> "ipA"]

\* Variant: the permissive decision is returned without asking the client.
checkRateLimit_neverAsks(rl, identifier) ==
    [await |-> FALSE, ret |-> Ok(Permissive), key |-> identifier]

\* checkRateLimit up to its suspension: either it returns at once, or it
\* issues rl.limit(key) and waits.
checkRateLimit(rl, identifier) ==
    IF rl = Null
    THEN [await |-> FALSE, ret |-> Ok(Permissive), key |-> identifier]
    ELSE [await |-> TRUE, ret |-> Failure, key |-> identifier]

\* Variant: a failure of rl.limit is caught and the call fails open.
checkRateLimitSettle_failOpen(outcome) ==
    IF outcome.kind = "error" THEN Ok(Permissive) ELSE outcome

\* Variant: remaining is recomputed locally from the limit.
checkRateLimitSettle_localRemaining(outcome) ==
    IF outcome.kind = "error" THEN outcome
    ELSE [outcome EXCEPT !.remaining = IF outcome.success THEN outcome.limit ELSE 0]

\* `return rl.limit(identifier)`: the call settles as rl.limit settled.
checkRateLimitSettle(outcome) == outcome

\* ------------------------------------------------- the external store
WindowTicks(cfg) == cfg.windowDays * DayTicks

Bucket(cfg, t) == t \div WindowTicks(cfg)

CountIn(st, key, b) == IF st[key].bucket = b THEN st[key].count ELSE 0

\* The store's atomic increment-and-check for key at time t under policy cfg.
StoreLimit(st, cfg, key, t) ==
    LET b == Bucket(cfg, t)
        c == CountIn(st, key, b) + 1
    IN  [store |-> [st EXCEPT ![key] = [bucket |-> b, count |-> c]],
         resp  |-> [success   |-> c <= cfg.tokens,
                    limit     |-> cfg.tokens,
                    remaining |-> IF c <= cfg.tokens THEN cfg.tokens - c ELSE 0,
                    reset     |-> (b + 1) * WindowTicks(cfg)]]

\* ------------------------------------------------------------ history
Day(t) == t \div DayTicks

NoReturn == [made |-> FALSE]

ObsInit == [day |-> 0, n |-> 0, rejAt |-> -1]

\* Calls for identifier i already answered by the store in day d.
ObsN(i, d) == IF obs[i].day = d THEN obs[i].n ELSE 0

\* The suspended calls, each once.
Suspended == BagToSet(inflight)

RECURSIVE SumCopies(_, _)
SumCopies(B, S) == IF S = {} THEN 0
                   ELSE LET r == CHOOSE x \in S : TRUE
                        IN  CopiesIn(r, B) + SumCopies(B, S \ {r})

\* Number of suspended calls whose rl.limit was issued for key.
Pending(key) == SumCopies(inflight, {r \in Suspended : r.key = key})

\* ------------------------------------------- pricing catalog and cost
\* Amounts are exact decimals.  A price per million tokens is held in cents
\* (2.5 dollars is 250); a cost is held in units of 10^-8 dollar, so that
\* (tokens / 1_000_000) * price is tokens * cents in that unit.  The largest
\* cost explored, 18 dollars, is below 2^31 units.
CentsPerDollar == 100

Million == 1000000

PerDollar == Million * CentsPerDollar    \* cost units in one dollar

\* Variant: the second entry repeats the identifier of the first.
MODELS_duplicateId ==
    << [id |-> "openai/gpt-4o", name |-> "GPT-4o", provider |-> "OpenAI",
        inputCostPer1MTokens |-> 250, outputCostPer1MTokens |-> 1000],
       [id |-> "openai/gpt-4o", name |-> "GPT-4o Mini", provider |-> "OpenAI",
        inputCostPer1MTokens |-> 15, outputCostPer1MTokens |-> 60],
       [id |-> "openai/gpt-5-mini", name |-> "GPT-5 Mini", provider |-> "OpenAI",
        inputCostPer1MTokens |-> 30, outputCostPer1MTokens |-> 120],
       [id |-> "anthropic/claude-sonnet-4-5-20250929", name |-> "Claude Sonnet 4.5",
        provider |-> "Anthropic",
        inputCostPer1MTokens |-> 300, outputCostPer1MTokens |-> 1500],
       [id |-> "google/gemini-2.0-flash", name |-> "Gemini 2.0 Flash",
        provider |-> "Google",
        inputCostPer1MTokens |-> 10, outputCostPer1MTokens |-> 40],
       [id |-> "google/gemini-2.5-pro", name |-> "Gemini 2.5 Pro",
        provider |-> "Google",
        inputCostPer1MTokens |-> 125, outputCostPer1MTokens |-> 500] >>

MODELS ==
    << [id |-> "openai/gpt-4o", name |-> "GPT-4o", provider |-> "OpenAI",
        inputCostPer1MTokens |-> 250, outputCostPer1MTokens |-> 1000],
       [id |-> "openai/gpt-4o-mini", name |-> "GPT-4o Mini", provider |-> "OpenAI",
        inputCostPer1MTokens |-> 15, outputCostPer1MTokens |-> 60],
       [id |-> "openai/gpt-5-mini", name |-> "GPT-5 Mini", provider |-> "OpenAI",
        inputCostPer1MTokens |-> 30, outputCostPer1MTokens |-> 120],
       [id |-> "anthropic/claude-sonnet-4-5-20250929", name |-> "Claude Sonnet 4.5",
        provider |-> "Anthropic",
        inputCostPer1MTokens |-> 300, outputCostPer1MTokens |-> 1500],
       [id |-> "google/gemini-2.0-flash", name |-> "Gemini 2.0 Flash",
        provider |-> "Google",
        inputCostPer1MTokens |-> 10, outputCostPer1MTokens |-> 40],
       [id |-> "google/gemini-2.5-pro", name |-> "Gemini 2.5 Pro",
        provider |-> "Google",
        inputCostPer1MTokens |-> 125, outputCostPer1MTokens |-> 500] >>

\* The value a lookup yields when nothing matches.
Undefined == [id |-> "undefined"]

\* MODELS.find((m) => m.id === modelId): the first matching entry, or
\* undefined.
Find(models, modelId) ==
    LET hits == {i \in 1..Len(models) : models[i].id = modelId}
    IN  IF hits = {} THEN Undefined
        ELSE models[CHOOSE i \in hits : \A j \in hits : i <= j]

\* Variant: the two prices are exchanged.
calculateCost_swappedPrices(model, promptTokens, completionTokens) ==
    promptTokens * model.outputCostPer1MTokens
        + completionTokens * model.inputCostPer1MTokens

\* Variant: the completion term is subtracted.
calculateCost_minus(model, promptTokens, completionTokens) ==
    promptTokens * model.inputCostPer1MTokens
        - completionTokens * model.outputCostPer1MTokens

\* calculateCost
calculateCost(model, promptTokens, completionTokens) ==
    promptTokens * model.inputCostPer1MTokens
        + completionTokens * model.outputCostPer1MTokens

RECURSIVE Pow10(_)
Pow10(k) == IF k = 0 THEN 1 ELSE 10 * Pow10(k - 1)

Digit(d) == <<"0", "1", "2", "3", "4", "5", "6", "7", "8", "9">>[d + 1]

\* Number.prototype.toString of a non-negative integer.
RECURSIVE NumberToString(_)
NumberToString(n) ==
    IF n < 10 THEN <<Digit(n)>>
    ELSE NumberToString(n \div 10) \o <<Digit(n % 10)>>

\* The last k decimal digits of n, with leading zeros.
RECURSIVE LastDigits(_, _)
LastDigits(n, k) == IF k = 0 THEN <<>>
                    ELSE LastDigits(n \div 10, k - 1) \o <<Digit(n % 10)>>

\* cost.toFixed(f), f <= 8: the nearest multiple of 10^-f, the larger one
\* of two equally near, written with exactly f fractional digits.
toFixed(cost, f) ==
    LET a    == IF cost < 0 THEN -cost ELSE cost
        unit == Pow10(8 - f)
        n    == (a + unit \div 2) \div unit
    IN  (IF cost < 0 THEN <<"-">> ELSE <<>>)
            \o NumberToString(n \div Pow10(f)) \o <<".">> \o LastDigits(n, f)

\* Variant: the boundary values fall in the tier below them.
formatCost_inclusive(cost) ==
    IF cost <= PerDollar \div 1000 THEN <<"$">> \o toFixed(cost, 6)
    ELSE IF cost <= PerDollar \div 100 THEN <<"$">> \o toFixed(cost, 5)
    ELSE IF cost <= PerDollar THEN <<"$">> \o toFixed(cost, 4)
    ELSE <<"$">> \o toFixed(cost, 2)

\* formatCost
formatCost(cost) ==
    IF cost < PerDollar \div 1000 THEN <<"$">> \o toFixed(cost, 6)
    ELSE IF cost < PerDollar \div 100 THEN <<"$">> \o toFixed(cost, 5)
    ELSE IF cost < PerDollar THEN <<"$">> \o toFixed(cost, 4)
    ELSE <<"$">> \o toFixed(cost, 2)

\* Inputs explored for a cost computation.
ModelIds == {MODELS[i].id : i \in 1..Len(MODELS)} \cup {"unknown/model"}

TokenCounts == {-1000000, -1, 0, 1, 400, 500000, 1000000}

\* 0, 0.0000004, 0.0009999, 0.001, 0.0099999, 0.01, 0.999999, 1, 15.5 dollars
Amounts == {0, 40, 99990, 100000, 999990, 1000000, 99999900, 100000000,
            1550000000}

NoCalc == [stage |-> "none"]

\* ------------------------------------------------ POST and page values
\* The identifier POST uses for a request without x-forwarded-for.
Anonymous == "anonymous"

\* The keys the store may hold.
Keys == Identifiers \cup {Anonymous}

NoResponse == [made |-> FALSE]

NoFile == "null"

SampleFile == "sample_image.jpg"

Files == {"a.png"}

MaxModels == 2      \* catalog entries the page is explored with

PageModels == {MODELS[i].id : i \in 1..MaxModels}

\* No entry for the identifier in extractions.
Absent == [status |-> "absent"]

\* ---------------------------------------------------------------- Init
\* The rate limiter after module load, under the configuration env.
LimiterInit(url, token) ==
    /\ envUrl = url
    /\ envToken = token
    /\ _ratelimit = Null
    /\ inflight = EmptyBag
    /\ store = [k \in Keys |-> [bucket |-> 0, count |-> 0]]
    /\ now = 0
    /\ constructed = 0
    /\ foundInvalid = FALSE
    /\ obs = [i \in Identifiers |-> ObsInit]
    /\ lastRet = NoReturn

CostInit ==
    /\ catalog = MODELS
    /\ calc = NoCalc

PostInit ==
    /\ posts = EmptyBag
    /\ lastPost = NoResponse

\* The page after its first render: every model selected, no file yet.
PageInit ==
    /\ file = NoFile
    /\ selectedModels = PageModels
    /\ extractions = [m \in PageModels |-> Absent]
    /\ fetches = EmptyBag
    /\ sample = "loading"

Init ==
    /\ \E url \in EnvUrls, token \in EnvTokens : LimiterInit(url, token)
    /\ CostInit
    /\ PostInit
    /\ PageInit

\* ------------------------------------------------------------- actions
\* The environment changes a configuration variable.
SetEnv ==
    /\ envUrl' \in EnvUrls
    /\ envToken' \in EnvTokens
    /\ <<envUrl', envToken'>> # <<envUrl, envToken>>
    /\ lastRet' = NoReturn
    /\ UNCHANGED <<_ratelimit, inflight, store, now, constructed, foundInvalid,
                   obs>>
    /\ UNCHANGED appVars

Tick ==
    /\ now < MaxTime
    /\ now' = now + 1
    /\ lastRet' = NoReturn
    /\ UNCHANGED <<envUrl, envToken, _ratelimit, inflight, store, constructed,
                   foundInvalid, obs>>
    /\ UNCHANGED appVars

\* checkRateLimit(identifier) returning without suspension.
CallReturns(identifier) ==
    /\ constructed < MaxHandles
    /\ LET g == getRatelimit(_ratelimit, envUrl, envToken, constructed + 1)
           c == checkRateLimit(g.rl, identifier)
       IN  /\ ~c.await
           /\ _ratelimit' = g.cache
           /\ constructed' = IF g.built THEN constructed + 1 ELSE constructed
           /\ foundInvalid' = (foundInvalid \/ g.rl = Null)
           /\ lastRet' = [made |-> TRUE, via |-> "sync", id |-> identifier,
                          rl |-> g.rl,
                          ret |-> c.ret, resp |-> Failure, ops |-> 0,
                          n |-> 0, before |-> 0, after |-> 0,
                          prevRej |-> FALSE, gap |-> 0, others |-> FALSE]
    /\ UNCHANGED <<envUrl, envToken, inflight, store, now, obs>>
    /\ UNCHANGED appVars

\* checkRateLimit(identifier) issuing rl.limit and suspending.
CallSuspends(identifier) ==
    /\ BagCardinality(inflight) < MaxConc
    /\ constructed < MaxHandles
    /\ LET g == getRatelimit(_ratelimit, envUrl, envToken, constructed + 1)
           c == checkRateLimit(g.rl, identifier)
       IN  /\ c.await
           /\ CountIn(store, c.key, Bucket(limiter, now)) + Pending(c.key) < MaxCount
           /\ _ratelimit' = g.cache
           /\ constructed' = IF g.built THEN constructed + 1 ELSE constructed
           /\ foundInvalid' = (foundInvalid \/ g.rl = Null)
           /\ inflight' = inflight (+) SetToBag({[id |-> identifier, key |-> c.key,
                                                   rl |-> g.rl]})
    /\ lastRet' = NoReturn
    /\ UNCHANGED <<envUrl, envToken, store, now, obs>>
    /\ UNCHANGED appVars

\* The store answers the suspended rl.limit and the call settles.
LimitResolves(f) ==
    /\ f \in Suspended
    /\ LET r    == StoreLimit(store, limiter, f.key, now)
           d    == Day(now)
           n    == ObsN(f.id, d) + 1
           ret  == checkRateLimitSettle(Ok(r.resp))
           rej  == ret.kind = "ok" /\ ~ret.success
       IN  /\ store' = r.store
           /\ obs' = [obs EXCEPT ![f.id] =
                        [day |-> d, n |-> n,
                         rejAt |-> IF rej THEN now ELSE obs[f.id].rejAt]]
           /\ lastRet' = [made |-> TRUE, via |-> "resolved", id |-> f.id,
                          rl |-> f.rl, ret |-> ret, resp |-> Ok(r.resp), ops |-> 1,
                          n |-> n,
                          before |-> CountIn(store, f.id, Bucket(limiter, now)),
                          after |-> CountIn(r.store, f.id, Bucket(limiter, now)),
                          prevRej |-> (obs[f.id].rejAt >= 0 /\ Day(obs[f.id].rejAt) < d),
                          gap |-> now - obs[f.id].rejAt,
                          others |-> (\E j \in Identifiers \ {f.id} :
                                         /\ obs[j].rejAt >= 0
                                         /\ Day(obs[j].rejAt) = d)]
    /\ inflight' = inflight (-) SetToBag({f})
    /\ UNCHANGED <<envUrl, envToken, _ratelimit, now, constructed, foundInvalid>>
    /\ UNCHANGED appVars

\* The store is unreachable or errors: rl.limit rejects and the call settles.
LimitRejects(f) ==
    /\ f \in Suspended
    /\ lastRet' = [made |-> TRUE, via |-> "rejected", id |-> f.id,
                   rl |-> f.rl,
                   ret |-> checkRateLimitSettle(Failure), resp |-> Failure,
                   ops |-> 0, n |-> 0, before |-> 0, after |-> 0,
                   prevRej |-> FALSE, gap |-> 0, others |-> FALSE]
    /\ inflight' = inflight (-) SetToBag({f})
    /\ UNCHANGED <<envUrl, envToken, _ratelimit, store, now, constructed,
                   foundInvalid, obs>>
    /\ UNCHANGED appVars

Calls ==
    \/ \E i \in Identifiers : CallReturns(i)
    \/ \E i \in Identifiers : CallSuspends(i)
    \/ \E f \in Suspended : LimitResolves(f)
    \/ \E f \in Suspended : LimitRejects(f)

Next == SetEnv \/ Tick \/ Calls

Spec == Init /\ [][Next]_vars

\* The same process under a configuration that never changes.
NextFixedEnv == Tick \/ Calls

SpecFixedEnv == Init /\ [][NextFixedEnv]_vars

\* ============================================================== claims
\* The latest step is the store answering a call.
Served == lastRet.made /\ lastRet.via = "resolved"

\* The configuration as the deployment sees it: URL unset, token unset, or a
\* URL that is not an https URL.
ConfigInvalid == envUrl = Unset \/ envToken = Unset \/ envUrl # HttpsUrl

\* C1: with the limiter enabled, the 1st to 5th calls the store answers for
\* one identifier in one day are admitted, the 6th and every later one in
\* that day is rejected with remaining = 0.
C1_QuotaFivePerDay ==
    Served =>
        /\ lastRet.ret.kind = "ok"
        /\ lastRet.n <= 5 => lastRet.ret.success
        /\ lastRet.n > 5 => (~lastRet.ret.success /\ lastRet.ret.remaining = 0)

C1_Witness ==
    /\ Served
    /\ lastRet.n = 7
    /\ ~lastRet.ret.success
    /\ lastRet.ret.remaining = 0

\* C2: in a process whose configuration is invalid, no call ever contacts the
\* store and every call returns {success: true, limit: 0, remaining: 0,
\* reset: 0}.
C2_UnconfiguredIsPermissive ==
    ConfigInvalid =>
        /\ inflight = EmptyBag
        /\ _ratelimit = Null
        /\ lastRet.made =>
              lastRet.ret = [kind |-> "ok", success |-> TRUE, limit |-> 0,
                             remaining |-> 0, reset |-> 0]

C2_Witness ==
    /\ envUrl = HttpUrl
    /\ envToken # Unset
    /\ lastRet.made
    /\ lastRet.ret.kind = "ok"
    /\ lastRet.ret.success
    /\ foundInvalid

\* C3: when the store fails, checkRateLimit fails with an error; it does not
\* return a decision, neither success = true nor success = false.
C3_StoreFailureIsAnError ==
    (lastRet.made /\ lastRet.via = "rejected") => lastRet.ret = [kind |-> "error"]

C3_Witness ==
    /\ lastRet.made
    /\ lastRet.via = "rejected"
    /\ lastRet.rl # Null
    /\ lastRet.ret.kind = "error"

\* C4: once a client has been constructed, the cached handle is never
\* replaced, reset or constructed again, and every later call uses it,
\* whatever the configuration is at that call.
C4_HandleIsKept ==
    /\ [][_ratelimit # Null =>
             (_ratelimit' = _ratelimit /\ constructed' = constructed)]_vars
    /\ [][\A f \in BagToSet(inflight') :
             (_ratelimit # Null /\ CopiesIn(f, inflight') > CopiesIn(f, inflight))
                 => f.rl = _ratelimit]_vars
    /\ [][(_ratelimit # Null /\ lastRet'.made /\ lastRet'.via = "sync")
             => lastRet'.rl = _ratelimit]_vars

C4_Witness ==
    /\ Served
    /\ lastRet.rl = _ratelimit
    /\ lastRet.n > 1
    /\ ConfigInvalid
    /\ \E f \in Suspended : f.rl = _ratelimit

\* C5: once a call has found the configuration invalid, no client is ever
\* constructed and every later call returns the permissive decision without
\* contacting the store.
C5_StaysDisabled ==
    foundInvalid =>
        /\ _ratelimit = Null
        /\ constructed = 0
        /\ inflight = EmptyBag

\* C6: the counter of an identifier changes only when a call for that
\* identifier is answered, and an identifier's first five calls of a day are
\* admitted even when another identifier has exhausted its quota that day.
C6_IdentifiersAreIsolated ==
    /\ [][\A b \in Identifiers :
             store'[b] # store[b] =>
                 \E f \in Suspended :
                     /\ f.id = b
                     /\ CopiesIn(f, inflight') < CopiesIn(f, inflight)]_vars
    /\ []((Served /\ lastRet.others /\ lastRet.n <= 5) => lastRet.ret.success)

C6_Witness ==
    /\ Served
    /\ lastRet.others
    /\ lastRet.n = 5
    /\ lastRet.ret.success

\* C7: an identifier rejected in an earlier day is admitted again on its
\* first five calls of a later day, with the full quota to count down from,
\* however short the time since the rejection.
C7_WindowIsFixed ==
    (Served /\ lastRet.prevRej /\ lastRet.n <= 5) =>
        (lastRet.ret.success /\ lastRet.ret.remaining = 5 - lastRet.n)

C7_Witness ==
    /\ Served
    /\ lastRet.prevRej
    /\ lastRet.gap = 1
    /\ lastRet.n = 1
    /\ lastRet.ret.success

\* C8: with a client in hand, a call that gets a decision has made exactly
\* one increment-and-check, which raised the counter of its own identifier
\* by one, also when the decision is a rejection.
C8_EveryCallIncrements ==
    (lastRet.made /\ lastRet.rl # Null /\ lastRet.ret.kind = "ok") =>
        (lastRet.ops = 1 /\ lastRet.after = lastRet.before + 1)

C8_Witness ==
    /\ Served
    /\ ~lastRet.ret.success
    /\ lastRet.before = 6
    /\ lastRet.after = 7

\* C9: the decision checkRateLimit returns is field by field the decision
\* the store reported for that call.
C9_DecisionIsTheStores ==
    Served =>
        /\ lastRet.ret.kind = "ok"
        /\ lastRet.ret.success = lastRet.resp.success
        /\ lastRet.ret.limit = lastRet.resp.limit
        /\ lastRet.ret.remaining = lastRet.resp.remaining
        /\ lastRet.ret.reset = lastRet.resp.reset

C9_Witness ==
    /\ Served
    /\ lastRet.ret.limit = 5
    /\ lastRet.ret.remaining = 3
    /\ lastRet.ret.reset > DayTicks

\* C10: at most one client is ever constructed, and calls suspended at the
\* same time hold the same handle, the cached one.
C10_OneHandle ==
    /\ constructed <= 1
    /\ \A f \in Suspended : f.rl = _ratelimit
    /\ \A f, g \in Suspended : f.rl = g.rl

C10_Witness ==
    /\ ~foundInvalid
    /\ \A i \in Identifiers : obs[i] = ObsInit
    /\ BagCardinality(inflight) >= 2
    /\ constructed = 1

\* =================================================== cost computations
\* One cost computation, as extractAll and the result cards make it: the
\* inputs are drawn first, then the functions are applied to them.
InitCost ==
    /\ LimiterInit(Unset, Unset)
    /\ PostInit
    /\ PageInit
    /\ catalog = MODELS
    /\ \/ \E m \in ModelIds, p \in TokenCounts, c \in TokenCounts :
             calc = [stage |-> "usage", modelId |-> m, promptTokens |-> p,
                     completionTokens |-> c]
       \/ \E a \in Amounts : calc = [stage |-> "amount", cost |-> a]

limiterVars == <<envUrl, envToken, _ratelimit, inflight, store, now,
                 constructed, foundInvalid, obs, lastRet>>

\* config = MODELS.find(...)!; cost = calculateCost(config, ...), then
\* formatCost(cost) on the card.  Reading a price of undefined throws.
Calculate ==
    /\ calc.stage = "usage"
    /\ LET config == Find(catalog, calc.modelId)
       IN  calc' = IF config = Undefined
                   THEN [stage |-> "thrown", modelId |-> calc.modelId,
                         promptTokens |-> calc.promptTokens,
                         completionTokens |-> calc.completionTokens,
                         config |-> config, passedOn |-> TRUE]
                   ELSE LET cost == calculateCost(config, calc.promptTokens,
                                                  calc.completionTokens)
                        IN  [stage |-> "costed", modelId |-> calc.modelId,
                             promptTokens |-> calc.promptTokens,
                             completionTokens |-> calc.completionTokens,
                             config |-> config, passedOn |-> TRUE,
                             cost |-> cost, text |-> formatCost(cost)]
    /\ UNCHANGED <<limiterVars, catalog, postVars, uiVars>>

\* formatCost(amount) for an amount that is not computed from a usage.
Format ==
    /\ calc.stage = "amount"
    /\ calc' = [stage |-> "formatted", cost |-> calc.cost,
                text |-> formatCost(calc.cost)]
    /\ UNCHANGED <<limiterVars, catalog, postVars, uiVars>>

NextCost == Calculate \/ Format

SpecCost == InitCost /\ [][NextCost]_vars

\* The entries of the catalog that carry identifier m.
Matches(m) == {i \in 1..Len(catalog) : catalog[i].id = m}

\* Number of characters after the decimal point.
FracDigits(text) == Len(text) - (CHOOSE i \in 1..Len(text) : text[i] = ".")

\* C12: for a catalog entry and non-negative token counts the cost is exactly
\* (p / 1,000,000) * input price + (c / 1,000,000) * output price; at prices
\* 2.5 and 10.0 with p = 1,000,000 and c = 500,000 it is 7.5 dollars.
C12_CostFormula ==
    (calc.stage = "costed" /\ calc.promptTokens >= 0 /\ calc.completionTokens >= 0) =>
        LET e == catalog[CHOOSE i \in Matches(calc.modelId) : TRUE]
        IN  /\ calc.cost = calc.promptTokens * e.inputCostPer1MTokens
                              + calc.completionTokens * e.outputCostPer1MTokens
            /\ (/\ e.inputCostPer1MTokens = 250
                /\ e.outputCostPer1MTokens = 1000
                /\ calc.promptTokens = 1000000
                /\ calc.completionTokens = 500000)
                   => 2 * calc.cost = 15 * PerDollar

C12_Witness ==
    /\ calc.stage = "costed"
    /\ calc.modelId = "openai/gpt-4o"
    /\ calc.promptTokens = 1000000
    /\ calc.completionTokens = 500000
    /\ calc.cost = 750000000

\* C13: formatCost writes a dollar sign and then 6 fractional digits for a
\* cost below 0.001, 5 from 0.001 to below 0.01, 4 from 0.01 to below 1 and
\* 2 from 1 on.
C13_FormatTiers ==
    calc.stage \in {"costed", "formatted"} =>
        /\ Head(calc.text) = "$"
        /\ FracDigits(calc.text) =
              IF calc.cost < PerDollar \div 1000 THEN 6
              ELSE IF calc.cost < PerDollar \div 100 THEN 5
              ELSE IF calc.cost < PerDollar THEN 4
              ELSE 2

C13_Witness ==
    /\ calc.stage = "formatted"
    /\ calc.cost = PerDollar \div 1000
    /\ calc.text = <<"$", "0", ".", "0", "0", "1", "0", "0">>

\* C14: a cost computed from a negative token count is never negative.
C14_NegativeCountsRejected ==
    (calc.stage = "costed" /\ (calc.promptTokens < 0 \/ calc.completionTokens < 0))
        => calc.cost >= 0

C16_CostIsMonotone ==
    (calc.stage = "costed" /\ calc.promptTokens >= 0 /\ calc.completionTokens >= 0) =>
        \A p2, c2 \in TokenCounts :
            (p2 >= calc.promptTokens /\ c2 >= calc.completionTokens)
                => calc.cost <= calculateCost(calc.config, p2, c2)

C16_Witness ==
    /\ calc.stage = "costed"
    /\ calc.promptTokens = 1
    /\ calc.completionTokens = 400
    /\ calc.cost > 0
    /\ calc.cost < calculateCost(calc.config, 1, 500000)
    /\ calc.cost < calculateCost(calc.config, 400, 400)

\* C17: no two entries of the catalog carry the same identifier, a lookup
\* that finds an entry finds exactly one, and no step changes the catalog.
C17_IdentifiersAreUnique ==
    /\ [](\A i, j \in 1..Len(catalog) : catalog[i].id = catalog[j].id => i = j)
    /\ [](calc.stage = "costed" => Cardinality(Matches(calc.modelId)) = 1)
    /\ [][catalog' = catalog]_vars

C17_Witness ==
    /\ calc.stage = "costed"
    /\ calc.config = catalog[2]
    /\ Len(catalog) = 6

\* ================================================== POST /api/extract
\* (src/app/api/extract/route.ts, lines 86-158)
NoHeader == "null"

\* Values of the x-forwarded-for header explored.
ForwardedFor == {NoHeader, "ipA"}

\* Variant: a request without the header is keyed apart from "anonymous".
RequestIdentifier_other(header) == IF header = NoHeader THEN "ipB" ELSE header

\* req.headers.get("x-forwarded-for") ?? "anonymous"
RequestIdentifier(header) == IF header = NoHeader THEN Anonymous ELSE header

\* formData.get("model"): no field, or a model identifier.
NoField == "null"

FormModels == {NoField, "openai/gpt-4o"}

\* usage.inputTokens and usage.outputTokens as the gateway reports them;
\* NoTokens stands for undefined.
NoTokens == -1

Usages == {[inputTokens |-> 400, outputTokens |-> 1],
           [inputTokens |-> NoTokens, outputTokens |-> NoTokens]}

OrZero(n) == IF n = NoTokens THEN 0 ELSE n

Json429(dec) ==
    [status  |-> 429,
     error   |-> "Too many requests. Please wait a moment.",
     headers |-> [limit     |-> NumberToString(dec.limit),
                  remaining |-> NumberToString(dec.remaining),
                  reset     |-> NumberToString(dec.reset)]]

Json400 == [status |-> 400, error |-> "Missing image or model"]

Json200(modelId, usage) ==
    [status |-> 200, model |-> modelId,
     usage  |-> [promptTokens     |-> OrZero(usage.inputTokens),
                 completionTokens |-> OrZero(usage.outputTokens)]]

Json500 == [status |-> 500, error |-> "Failed to extract metadata"]

\* Variant: a rejected request is not answered and goes on.
PostOnDecision_ignored(dec) == [respond |-> FALSE, resp |-> Json400]

\* Variant: the limit and remaining headers are exchanged.
PostOnDecision_swappedHeaders(dec) ==
    IF ~dec.success
    THEN [respond |-> TRUE,
          resp |-> [Json429(dec) EXCEPT
                      !.headers.limit = NumberToString(dec.remaining),
                      !.headers.remaining = NumberToString(dec.limit)]]
    ELSE [respond |-> FALSE, resp |-> Json400]

\* POST once checkRateLimit has returned dec: `if (!success) return 429`.
PostOnDecision(dec) ==
    IF ~dec.success
    THEN [respond |-> TRUE, resp |-> Json429(dec)]
    ELSE [respond |-> FALSE, resp |-> Json400]

\* The requests in progress, each once.
InProgress == BagToSet(posts)

\* Number of requests suspended at rl.limit for key.
PendingPosts(key) ==
    SumCopies(posts, {r \in InProgress : r.pc = "limit" /\ r.key = key})

\* The decision a request past line 102 was let through with.
Admitted(r) == [kind |-> "ok", success |-> r.admitted]

\* POST returns resp; dec is what its checkRateLimit call returned.
Answer(r, dec, resp) ==
    [made |-> TRUE, kind |-> "response", key |-> r.key, dec |-> dec,
     header |-> r.header, charged |-> r.charged, fetch |-> r.fetch,
     resp |-> resp]

\* POST rejects: its checkRateLimit call threw and nothing caught it.
Thrown(r) ==
    [made |-> TRUE, kind |-> "thrown", key |-> r.key, dec |-> Failure,
     header |-> r.header, charged |-> r.charged, fetch |-> r.fetch]

\* A request suspended at pc after checkRateLimit let it pass with dec.
Passed(r, dec, pc) == [r EXCEPT !.pc = pc, !.admitted = dec.success]

\* POST from its entry to its first suspension that the environment
\* settles: rl.limit when the limiter is enabled, req.formData() otherwise.
\* fetch names the request of the page that carries it, if any.
PostEnters(header, fetch) ==
    /\ constructed < MaxHandles
    /\ LET ip  == RequestIdentifier(header)
           g   == getRatelimit(_ratelimit, envUrl, envToken, constructed + 1)
           c   == checkRateLimit(g.rl, ip)
           r   == [pc |-> "limit", key |-> c.key, model |-> NoField,
                   admitted |-> FALSE, header |-> header, charged |-> 0,
                   fetch |-> fetch]
           o   == PostOnDecision(c.ret)
       IN  /\ c.await =>
                 CountIn(store, c.key, Bucket(limiter, now)) + PendingPosts(c.key)
                     < MaxCount
           /\ _ratelimit' = g.cache
           /\ constructed' = IF g.built THEN constructed + 1 ELSE constructed
           /\ foundInvalid' = (foundInvalid \/ g.rl = Null)
           /\ IF c.await
              THEN /\ posts' = posts (+) SetToBag({r})
                   /\ lastPost' = NoResponse
              ELSE IF o.respond
              THEN /\ posts' = posts
                   /\ lastPost' = Answer(r, c.ret, o.resp)
              ELSE /\ posts' = posts (+) SetToBag({Passed(r, c.ret, "form")})
                   /\ lastPost' = NoResponse
    /\ UNCHANGED <<envUrl, envToken, inflight, store, now, obs, lastRet,
                   costVars>>

\* A request from any client enters POST.
PostBegins(header) ==
    /\ BagCardinality(posts) < MaxConc
    /\ PostEnters(header, NoField)
    /\ UNCHANGED uiVars

\* POST resumed with the outcome of rl.limit, n being the amount the store
\* added to the counter of its key: it throws, answers 429, or goes on to
\* req.formData().
PostResumes(r, n, dec) ==
    LET o == PostOnDecision(dec)
        q == [r EXCEPT !.charged = n]
    IN  IF dec.kind = "error"
        THEN /\ posts' = posts (-) SetToBag({r})
             /\ lastPost' = Thrown(q)
        ELSE IF o.respond
        THEN /\ posts' = posts (-) SetToBag({r})
             /\ lastPost' = Answer(q, dec, o.resp)
        ELSE /\ posts' = (posts (-) SetToBag({r}))
                           (+) SetToBag({Passed(q, dec, "form")})
             /\ lastPost' = NoResponse

\* The store answers the rl.limit of a request.
LimitAnswered(r) ==
    /\ r.pc = "limit"
    /\ LET l == StoreLimit(store, limiter, r.key, now)
           b == Bucket(limiter, now)
       IN  /\ store' = l.store
           /\ PostResumes(r, CountIn(l.store, r.key, b) - CountIn(store, r.key, b),
                          checkRateLimitSettle(Ok(l.resp)))
    /\ UNCHANGED <<envUrl, envToken, _ratelimit, inflight, now, constructed,
                   foundInvalid, obs, lastRet, costVars>>

PostLimitResolves(r) == LimitAnswered(r) /\ UNCHANGED uiVars

\* The store fails: checkRateLimit rejects at line 88, outside the try
\* block, so POST itself rejects without building a response.
PostLimitRejects(r) ==
    /\ r.pc = "limit"
    /\ PostResumes(r, 0, checkRateLimitSettle(Failure))
    /\ UNCHANGED <<limiterVars, costVars, uiVars>>

\* req.formData() resolves with the fields of the request: 400 when the
\* image or the model is missing, otherwise generateObject is called.
PostReadsForm(r, image, modelId) ==
    /\ r.pc = "form"
    /\ IF ~image \/ modelId = NoField
       THEN /\ posts' = posts (-) SetToBag({r})
            /\ lastPost' = Answer(r, Admitted(r), Json400)
       ELSE /\ posts' = (posts (-) SetToBag({r}))
                          (+) SetToBag({[r EXCEPT !.pc = "generate",
                                                  !.model = modelId]})
            /\ lastPost' = NoResponse
    /\ UNCHANGED <<limiterVars, costVars, uiVars>>

\* generateObject resolves.
GenerateAnswered(r, usage) ==
    /\ r.pc = "generate"
    /\ posts' = posts (-) SetToBag({r})
    /\ lastPost' = Answer(r, Admitted(r), Json200(r.model, usage))
    /\ UNCHANGED <<limiterVars, costVars>>

PostGenerateResolves(r, usage) == GenerateAnswered(r, usage) /\ UNCHANGED uiVars

\* generateObject rejects: the catch block answers 500.
GenerateFailed(r) ==
    /\ r.pc = "generate"
    /\ posts' = posts (-) SetToBag({r})
    /\ lastPost' = Answer(r, Admitted(r), Json500)
    /\ UNCHANGED <<limiterVars, costVars>>

PostGenerateRejects(r) == GenerateFailed(r) /\ UNCHANGED uiVars

\* The clock advances between two steps of the handler.
PostTick ==
    /\ now < MaxTime
    /\ now' = now + 1
    /\ lastPost' = NoResponse
    /\ UNCHANGED <<envUrl, envToken, _ratelimit, inflight, store, constructed,
                   foundInvalid, obs, lastRet, posts, costVars, uiVars>>

NextPost ==
    \/ \E h \in ForwardedFor : PostBegins(h)
    \/ \E r \in InProgress : PostLimitResolves(r)
    \/ \E r \in InProgress : PostLimitRejects(r)
    \/ \E r \in InProgress, i \in BOOLEAN, m \in FormModels : PostReadsForm(r, i, m)
    \/ \E r \in InProgress, u \in Usages : PostGenerateResolves(r, u)
    \/ \E r \in InProgress : PostGenerateRejects(r)
    \/ PostTick

SpecPost == Init /\ [][NextPost]_vars

\* ------------------------------------------------ claims on POST
\* C11: POST answers 429 exactly when its checkRateLimit call returned
\* success = false, and the 429 carries the decision's limit, remaining and
\* reset as the X-RateLimit-Limit, -Remaining and -Reset headers.
C11_RejectedIs429 ==
    (lastPost.made /\ lastPost.kind = "response") =>
        /\ (lastPost.resp.status = 429) <=> ~lastPost.dec.success
        /\ lastPost.resp.status = 429 =>
              lastPost.resp.headers =
                  [limit     |-> NumberToString(lastPost.dec.limit),
                   remaining |-> NumberToString(lastPost.dec.remaining),
                   reset     |-> NumberToString(lastPost.dec.reset)]

\* A 429 of the second window: limit 5, remaining 0, reset at its end.
C11_Witness ==
    /\ lastPost.made
    /\ lastPost.kind = "response"
    /\ lastPost.resp.status = 429
    /\ ~lastPost.dec.success
    /\ lastPost.resp.headers.limit = <<"5">>
    /\ lastPost.resp.headers.remaining = <<"0">>
    /\ lastPost.dec.reset > DayTicks

\* C18: the rate-limit check comes first: a request is reading its form or
\* calling generateObject, or has been answered from there, only after its
\* checkRateLimit call returned success = true.
C18_CheckComesFirst ==
    /\ \A r \in InProgress : r.pc \in {"form", "generate"} => r.admitted
    /\ (lastPost.made /\ lastPost.kind = "response"
          /\ lastPost.resp.status \in {200, 400, 500}) => lastPost.dec.success
    /\ (lastPost.made /\ lastPost.dec.kind = "ok" /\ ~lastPost.dec.success) =>
          lastPost.resp.status = 429

\* One request calls generateObject, admitted by the store, while another
\* has just been turned away.
C18_Witness ==
    /\ _ratelimit # Null
    /\ \E r \in InProgress : r.pc = "generate" /\ r.admitted
    /\ lastPost.made
    /\ lastPost.kind = "response"
    /\ lastPost.resp.status = 429

\* C19: when the rate-limit check of a request fails because the store is
\* unavailable, POST answers with a 5xx response carrying a message, as it
\* does when the inference fails.
C19_StoreFailureIs5xx ==
    (lastPost.made /\ lastPost.dec.kind = "error") =>
        /\ lastPost.kind = "response"
        /\ lastPost.resp.status >= 500
        /\ lastPost.resp.error # ""

\* ====================================================== the page
\* (src/app/page.tsx, PlaygroundPage)
MaxFetches == 2     \* fetches of /api/extract in flight at once

Loading == [status |-> "loading"]

\* The usage a successful response reports.
ResponseUsage == [promptTokens |-> 400, completionTokens |-> 1]

\* The entry written for a successful response (lines 164-175); beforeReset
\* records whether the request was started before the last reset.
Success(modelId, usage, beforeReset) ==
    LET config == Find(MODELS, modelId)
    IN  [status |-> "success",
         cost |-> calculateCost(config, usage.promptTokens,
                                usage.completionTokens),
         beforeReset |-> beforeReset]

\* err instanceof Error ? err.message : "Unknown error"
UnknownError == "Unknown error"

\* The entry written by the catch block (lines 176-182).
Error(message, beforeReset) ==
    [status |-> "error", error |-> message, beforeReset |-> beforeReset]

\* const isExtracting = Object.values(extractions).some(loading)
isExtracting == \E m \in DOMAIN extractions : extractions[m].status = "loading"

\* The fetches in flight, each once.
InFlight == BagToSet(fetches)

\* The fetches in flight, all marked as started before a reset.
Overtaken ==
    LET S == {[r EXCEPT !.beforeReset = TRUE] : r \in InFlight}
    IN  [r \in S |-> CopiesIn(r, fetches)
                       + CopiesIn([r EXCEPT !.beforeReset = FALSE], fetches)]

\* setExtractions({})
NoExtractions == [m \in PageModels |-> Absent]

\* The mount effect resolves: setFile(sample), extractions untouched.
SampleLoaded ==
    /\ sample = "loading"
    /\ sample' = "done"
    /\ file' = SampleFile
    /\ UNCHANGED <<selectedModels, extractions, fetches>>
    /\ UNCHANGED <<limiterVars, costVars, postVars>>

\* The mount effect fails: .catch(() => {}).
SampleFails ==
    /\ sample = "loading"
    /\ sample' = "done"
    /\ UNCHANGED <<file, selectedModels, extractions, fetches>>
    /\ UNCHANGED <<limiterVars, costVars, postVars>>

\* handleFile(f), offered by the drop zone, which is rendered when !file.
handleFile(f) ==
    /\ file = NoFile
    /\ file' = f
    /\ extractions' = NoExtractions
    /\ fetches' = Overtaken
    /\ UNCHANGED <<selectedModels, sample>>
    /\ UNCHANGED <<limiterVars, costVars, postVars>>

\* clearFile(), offered by the button rendered over the preview.
clearFile ==
    /\ file # NoFile
    /\ file' = NoFile
    /\ extractions' = NoExtractions
    /\ fetches' = Overtaken
    /\ UNCHANGED <<selectedModels, sample>>
    /\ UNCHANGED <<limiterVars, costVars, postVars>>

toggleModel(id) ==
    /\ selectedModels' = IF id \in selectedModels
                         THEN selectedModels \ {id}
                         ELSE selectedModels \cup {id}
    /\ UNCHANGED <<file, extractions, fetches, sample>>
    /\ UNCHANGED <<limiterVars, costVars, postVars>>

\* The "Select all" / "Deselect all" button.
toggleAll ==
    /\ selectedModels' = IF Cardinality(selectedModels) = Cardinality(PageModels)
                         THEN {}
                         ELSE PageModels
    /\ UNCHANGED <<file, extractions, fetches, sample>>
    /\ UNCHANGED <<limiterVars, costVars, postVars>>

\* extractAll up to its fetches, through the Extract button, which is
\* disabled when !file, no model is selected or isExtracting.
ExtractClicked ==
    /\ file # NoFile
    /\ selectedModels # {}
    /\ ~isExtracting
    /\ extractions' = [m \in DOMAIN extractions |->
                         IF m \in selectedModels THEN Loading ELSE Absent]
    /\ fetches' = fetches (+) SetToBag({[modelId |-> m, beforeReset |-> FALSE] :
                                          m \in selectedModels})
    /\ UNCHANGED <<file, selectedModels, sample>>

extractAll ==
    /\ BagCardinality(fetches) + Cardinality(selectedModels) <= MaxFetches
    /\ ExtractClicked
    /\ UNCHANGED <<limiterVars, costVars, postVars>>

\* Variant: the entry is spread into the record extractAll started with,
\* not into the latest one.
WithEntry_fromInitial(prev, modelId, entry) ==
    [m \in DOMAIN prev |->
        IF m = modelId THEN entry
        ELSE IF prev[m] = Absent THEN Absent ELSE Loading]

\* setExtractions((prev) => ({ ...prev, [modelId]: entry }))
WithEntry(prev, modelId, entry) == [prev EXCEPT ![modelId] = entry]

\* A fetch resolves with res.ok: the entry of its model is written.
FetchOk(r) ==
    /\ BagIn(r, fetches)
    /\ fetches' = fetches (-) SetToBag({r})
    /\ extractions' = WithEntry(extractions, r.modelId,
                                Success(r.modelId, ResponseUsage, r.beforeReset))
    /\ UNCHANGED <<file, selectedModels, sample>>
    /\ UNCHANGED <<limiterVars, costVars, postVars>>

\* Variant: the catch block swallows the error and writes nothing.
FetchFails_swallowed(r) ==
    /\ BagIn(r, fetches)
    /\ fetches' = fetches (-) SetToBag({r})
    /\ UNCHANGED <<file, selectedModels, extractions, sample>>
    /\ UNCHANGED <<limiterVars, costVars, postVars>>

\* A fetch rejects or resolves with !res.ok: the catch block writes the entry.
FetchFails(r) ==
    /\ BagIn(r, fetches)
    /\ fetches' = fetches (-) SetToBag({r})
    /\ extractions' = WithEntry(extractions, r.modelId,
                                Error(UnknownError, r.beforeReset))
    /\ UNCHANGED <<file, selectedModels, sample>>
    /\ UNCHANGED <<limiterVars, costVars, postVars>>

NextUi ==
    \/ SampleLoaded
    \/ SampleFails
    \/ \E f \in Files : handleFile(f)
    \/ clearFile
    \/ \E id \in PageModels : toggleModel(id)
    \/ toggleAll
    \/ extractAll
    \/ \E r \in InFlight : FetchOk(r)
    \/ \E r \in InFlight : FetchFails(r)

\* The page as mounted, next to a server whose configuration is left unset.
InitUi == LimiterInit(Unset, Unset) /\ CostInit /\ PostInit /\ PageInit

SpecUi == InitUi /\ [][NextUi]_vars

\* Every request the page can have in flight.
FetchRecords == [modelId : PageModels, beforeReset : BOOLEAN]

\* The page when every request sent eventually resolves or rejects.
SpecUiLive ==
    SpecUi /\ \A r \in FetchRecords : WF_vars(FetchOk(r) \/ FetchFails(r))

\* ------------------------------------------------ claims on the page
\* C20: once handleFile or clearFile has reset extractions, no response of
\* a request started before that reset adds or changes an entry: every
\* result shown comes from a request started after the last reset.
C20_ResetDiscardsOldResponses ==
    \A m \in PageModels :
        extractions[m].status \in {"success", "error"} =>
            ~extractions[m].beforeReset

\* C22: at most one extraction batch is in flight at a time: the requests
\* of an extractAll are sent only when no request of an earlier extractAll
\* is still unresolved.
C22_OneBatchInFlight ==
    [][BagCardinality(fetches') > BagCardinality(fetches) =>
          fetches = EmptyBag]_vars

\* C25: the completion of the request for a model, successful or not,
\* changes the entry of that model only; the entries of all other models
\* are what they were.
C25_CompletionWritesOwnEntry ==
    [][BagCardinality(fetches') < BagCardinality(fetches) =>
          \E r \in InFlight :
              /\ fetches' = fetches (-) SetToBag({r})
              /\ extractions'[r.modelId].status \in {"success", "error"}
              /\ \A m \in DOMAIN extractions \ {r.modelId} :
                    extractions'[m] = extractions[m]]_vars

\* The two requests of one batch have completed, one with a result and one
\* with an error, and both entries stand.
C25_Witness ==
    \E m1, m2 \in DOMAIN extractions :
        /\ extractions[m1].status = "success"
        /\ ~extractions[m1].beforeReset
        /\ extractions[m2].status = "error"
        /\ ~extractions[m2].beforeReset
        /\ fetches = EmptyBag

\* C24: POST consumes quota before it validates the request: with the
\* limiter enabled, a request answered 400 has added one to the counter of
\* its identifier, and every request without an x-forwarded-for header is
\* counted under the one identifier "anonymous".
C24_QuotaBeforeValidation ==
    /\ (lastPost.made /\ lastPost.kind = "response" /\ _ratelimit # Null
          /\ lastPost.resp.status = 400) => lastPost.charged = 1
    /\ (lastPost.made /\ lastPost.header = NoHeader) => lastPost.key = Anonymous
    /\ \A r \in InProgress : r.header = NoHeader => r.key = Anonymous

\* A second request without the header is answered 400 after the counter
\* of "anonymous" has grown to two.
C24_Witness ==
    /\ lastPost.made
    /\ lastPost.kind = "response"
    /\ lastPost.resp.status = 400
    /\ lastPost.header = NoHeader
    /\ lastPost.charged = 1
    /\ _ratelimit # Null
    /\ store[Anonymous].count >= 2

\* C23: provided every request eventually resolves or rejects, a model in
\* status loading eventually reaches status success or error, and
\* isExtracting eventually becomes false.
C23_LoadingEnds ==
    /\ \A m \in PageModels :
          (extractions[m].status = "loading")
              ~> (extractions[m].status \in {"success", "error"})
    /\ isExtracting ~> ~isExtracting

\* A batch has run to its end: a model that was loading shows its result
\* and nothing is loading or in flight.
C23_Witness ==
    /\ ~isExtracting
    /\ fetches = EmptyBag
    /\ \E m \in PageModels :
          extractions[m].status = "success" /\ ~extractions[m].beforeReset
    /\ \A m \in selectedModels : extractions[m].status \in {"success", "error"}

\* ============================================ one batch, end to end
\* The page with the sample image loaded and the default selection of all
\* catalog models, in front of POST with the limiter enabled and a fresh
\* window; the page is the only client.
AllModels == {MODELS[i].id : i \in 1..Len(MODELS)}

\* The x-forwarded-for header the page's requests arrive with.
ClientHeader == "ipA"

\* What generateObject reports for a request of the batch.
BatchUsage == [inputTokens |-> 400, outputTokens |-> 1]

InitBatch ==
    /\ LimiterInit(HttpsUrl, <<"k">>)
    /\ CostInit
    /\ PostInit
    /\ file = SampleFile
    /\ selectedModels = AllModels
    /\ extractions = [m \in AllModels |-> Absent]
    /\ fetches = EmptyBag
    /\ sample = "done"

\* The continuation of the fetch for modelId once resp has arrived:
\* !res.ok throws new Error(err.error), res.ok writes the result.
OnResponse(modelId, resp) ==
    LET f == [modelId |-> modelId, beforeReset |-> FALSE]
    IN  /\ BagIn(f, fetches)
        /\ fetches' = fetches (-) SetToBag({f})
        /\ extractions' =
              WithEntry(extractions, modelId,
                        IF resp.status = 200
                        THEN Success(modelId, resp.usage, FALSE)
                        ELSE Error(resp.error, FALSE))
        /\ UNCHANGED <<file, selectedModels, sample>>

\* The response POST has just returned, if any, reaches the page.
Delivered ==
    IF lastPost'.made /\ lastPost'.kind = "response"
    THEN OnResponse(lastPost'.fetch, lastPost'.resp)
    ELSE UNCHANGED uiVars

\* The one click on Extract.
BatchExtractAll ==
    /\ \A m \in DOMAIN extractions : extractions[m] = Absent
    /\ ExtractClicked
    /\ UNCHANGED <<limiterVars, costVars, postVars>>

\* The request of a fetch reaches the server and POST begins.
BatchArrives(f) ==
    /\ BagIn(f, fetches)
    /\ \A r \in InProgress : r.fetch # f.modelId
    /\ PostEnters(ClientHeader, f.modelId)
    /\ Delivered

BatchLimitResolves(r) == LimitAnswered(r) /\ Delivered

\* The form of a request of the page holds the image and the model.
BatchReadsForm(r) == PostReadsForm(r, TRUE, r.fetch)

BatchGenerateResolves(r) == GenerateAnswered(r, BatchUsage) /\ Delivered

BatchGenerateRejects(r) == GenerateFailed(r) /\ Delivered

NextBatch ==
    \/ BatchExtractAll
    \/ \E f \in InFlight : BatchArrives(f)
    \/ \E r \in InProgress : BatchLimitResolves(r)
    \/ \E r \in InProgress : BatchReadsForm(r)
    \/ \E r \in InProgress : BatchGenerateResolves(r)
    \/ \E r \in InProgress : BatchGenerateRejects(r)

SpecBatch == InitBatch /\ [][NextBatch]_vars

\* ------------------------------------------------ claims on a batch
TooManyRequests == Json429(Ok(Permissive)).error

\* The models whose request was turned away with the 429 message.
TurnedAway ==
    {m \in AllModels : extractions[m].status = "error"
                         /\ extractions[m].error = TooManyRequests}

\* The models whose request got past the limiter and has been answered.
LetThrough ==
    {m \in AllModels : \/ extractions[m].status = "success"
                       \/ /\ extractions[m].status = "error"
                          /\ extractions[m].error # TooManyRequests}

BatchDone == fetches = EmptyBag /\ \E m \in AllModels : extractions[m] # Absent

\* C21: with the limiter enabled, a fresh window and no other traffic, one
\* extractAll over the six catalog models sends six requests under one
\* identifier: exactly five are admitted and exactly one model ends in
\* status error with the 429 message, in whatever order the requests
\* arrive.
C21_FiveOfSixAdmitted ==
    /\ Cardinality(TurnedAway) <= 1
    /\ Cardinality(LetThrough) <= 5
    /\ \A r \in InProgress : r.key = RequestIdentifier(ClientHeader)
    /\ BatchDone =>
          /\ Cardinality(TurnedAway) = 1
          /\ Cardinality(LetThrough) = 5
          /\ store[RequestIdentifier(ClientHeader)].count = 6

\* The batch is over and the model turned away is the first of the catalog.
C21_Witness ==
    /\ BatchDone
    /\ extractions[MODELS[1].id].status = "error"
    /\ extractions[MODELS[1].id].error = TooManyRequests
    /\ extractions[MODELS[6].id].status = "success"

====
